---- MODULE Spec2Model ----
(***************************************************************************)
(* A model of SudokuGame.py: the per-cell domain type SudokuEntry, the     *)
(* board SudokuState (add_number, remove_all_conflicts, propagate,         *)
(* get_most_constrained_cell, next_states) and the search driver dfs.      *)
(*                                                                         *)
(* A SudokuEntry is a record [fixed, domain]; domain is a Python list and  *)
(* is kept as a sequence.  A SudokuState is a record                       *)
(* [num_placed, board, exc]: board[row][col] is the entry at (row, col),   *)
(* rows and columns counted from 0 as in the source; exc is TRUE when an   *)
(* AssertionError is propagating out of the call being evaluated (every    *)
(* statement after the raising one is skipped).                            *)
(*                                                                         *)
(* Spec follows the value of one board under the calls of a caller.        *)
(* HeapSpec follows the objects as well: the SudokuState and SudokuEntry   *)
(* objects, which of them a state refers to, and what copy.deepcopy        *)
(* allocates, for the statements about what a call may change.             *)
(***************************************************************************)
EXTENDS Integers, Sequences, FiniteSets, TLC

VARIABLES
    b,         \* the SudokuState the caller holds
    op,        \* the last call made
    ret,       \* what it returned (the arguments, for add_number)
    adds,      \* add_number calls made since the puzzle function returned
    given,     \* the <<row, col, num>> of the add_number calls that returned
    contract,  \* every add_number call so far respected its precondition
    holes,     \* the cells the puzzle function leaves open
    pos,       \* the number of the first cell it has not reached yet
    heap       \* the SudokuState and SudokuEntry objects (HeapSpec)

vars == <<b, op, ret, adds, given, contract, holes, pos, heap>>

\* self.size
size == 9

\* Bound: add_number calls the caller makes after the start board is built
\* (on the board, or on a successor under HeapSpec).
MaxAdds == 1

\* Bound: dfs is only started on boards with at most this many unfixed cells.
MaxSearchHoles == 24

Idx == 0 .. (size - 1)

Cells == Idx \X Idx

\* ------------------------------------------------------------- SudokuEntry

\* SudokuEntry.__init__
NewEntry == [fixed |-> FALSE, domain |-> <<1, 2, 3, 4, 5, 6, 7, 8, 9>>]

is_fixed(e) == e.fixed

width(e) == Len(e.domain)

values(e) == e.domain

has_conflict(e) == Len(e.domain) = 0

\* n in self.domain
Contains(dom, n) == \E i \in 1 .. Len(dom) : dom[i] = n

\* list.remove(n): drops the first occurrence of n
ListRemove(dom, n) ==
    LET i == CHOOSE k \in 1 .. Len(dom) :
                 dom[k] = n /\ \A j \in 1 .. (k - 1) : dom[j] # n
    IN  SubSeq(dom, 1, i - 1) \o SubSeq(dom, i + 1, Len(dom))

\* SudokuEntry.fix without its assertion.
fix_unchecked(e, n) ==
    [exc |-> FALSE, entry |-> [fixed |-> TRUE, domain |-> <<n>>]]

\* SudokuEntry.fix: the result entry, or exc when the assertion fails
fix(e, n) ==
    IF ~Contains(e.domain, n)
    THEN [exc |-> TRUE, entry |-> e]
    ELSE [exc |-> FALSE, entry |-> [fixed |-> TRUE, domain |-> <<n>>]]

\* SudokuEntry.eliminate
eliminate(e, n) ==
    IF Contains(e.domain, n)
    THEN IF e.fixed
         THEN [exc |-> TRUE, entry |-> e]
         ELSE [exc |-> FALSE, entry |-> [e EXCEPT !.domain = ListRemove(@, n)]]
    ELSE [exc |-> FALSE, entry |-> e]

\* ------------------------------------------------------------- SudokuState

\* SudokuState.__init__
NewState ==
    [num_placed |-> 0,
     board |-> [row \in Idx |-> [col \in Idx |-> NewEntry]],
     exc |-> FALSE]

\* get_subgrid_number with the remainder of col for its quotient.
get_subgrid_number_mod(row, col) == (row \div 3) * 3 + (col % 3) + 1

get_subgrid_number(row, col) == (row \div 3) * 3 + (col \div 3) + 1

\* remove_conflict without the is_fixed test.
remove_conflict_unguarded(s, row, col, num) ==
    IF s.exc THEN s
    ELSE LET r == eliminate(s.board[row][col], num)
         IN  IF r.exc THEN [s EXCEPT !.exc = TRUE]
             ELSE [s EXCEPT !.board[row][col] = r.entry]

remove_conflict(s, row, col, num) ==
    IF s.exc THEN s
    ELSE IF ~is_fixed(s.board[row][col])
    THEN LET r == eliminate(s.board[row][col], num)
         IN  IF r.exc THEN [s EXCEPT !.exc = TRUE]
             ELSE [s EXCEPT !.board[row][col] = r.entry]
    ELSE s

RECURSIVE ConflictsInColumn(_, _, _, _)
\* for i in range(self.size): self.remove_conflict(i, col, num)
ConflictsInColumn(s, i, col, num) ==
    IF s.exc \/ i = size THEN s
    ELSE ConflictsInColumn(remove_conflict(s, i, col, num), i + 1, col, num)

RECURSIVE ConflictsInRow(_, _, _, _)
\* for j in range(self.size): self.remove_conflict(row, j, num)
ConflictsInRow(s, row, j, num) ==
    IF s.exc \/ j = size THEN s
    ELSE ConflictsInRow(remove_conflict(s, row, j, num), row, j + 1, num)

RECURSIVE ConflictsInSubgridRow(_, _, _, _, _, _)
\* for l in range(self.size): if (k, l) is in the subgrid of (row, col) ..
ConflictsInSubgridRow(s, k, l, row, col, num) ==
    IF s.exc \/ l = size THEN s
    ELSE ConflictsInSubgridRow(
             IF get_subgrid_number(k, l) = get_subgrid_number(row, col)
             THEN remove_conflict(s, k, l, num)
             ELSE s,
             k, l + 1, row, col, num)

RECURSIVE ConflictsInSubgrid(_, _, _, _, _)
\* for k in range(self.size): for l in range(self.size): ..
ConflictsInSubgrid(s, k, row, col, num) ==
    IF s.exc \/ k = size THEN s
    ELSE ConflictsInSubgrid(ConflictsInSubgridRow(s, k, 0, row, col, num),
                            k + 1, row, col, num)

\* remove_all_conflicts without its third loop nest: the subgrid of
\* (row, col) keeps num in its domains.
remove_all_conflicts_lines_only(s, row, col, num) ==
    ConflictsInRow(ConflictsInColumn(s, 0, col, num), row, 0, num)

\* remove_all_conflicts with row and col exchanged in its first two loops.
remove_all_conflicts_exchanged(s, row, col, num) ==
    ConflictsInSubgrid(
        ConflictsInRow(ConflictsInColumn(s, 0, row, num), col, 0, num),
        0, row, col, num)

remove_all_conflicts(s, row, col, num) ==
    ConflictsInSubgrid(
        ConflictsInRow(ConflictsInColumn(s, 0, col, num), row, 0, num),
        0, row, col, num)

\* add_number with self.num_placed += 1 moved before the call of fix.
add_number_count_first(s, row, col, num) ==
    IF s.exc THEN s
    ELSE LET r == fix(s.board[row][col], num)
         IN  IF r.exc THEN [s EXCEPT !.exc = TRUE, !.num_placed = @ + 1]
             ELSE remove_all_conflicts(
                      [s EXCEPT !.board[row][col] = r.entry,
                                !.num_placed = @ + 1],
                      row, col, num)

add_number(s, row, col, num) ==
    IF s.exc THEN s
    ELSE LET r == fix(s.board[row][col], num)
         IN  IF r.exc THEN [s EXCEPT !.exc = TRUE]
             ELSE remove_all_conflicts(
                      [s EXCEPT !.board[row][col] = r.entry,
                                !.num_placed = @ + 1],
                      row, col, num)

RECURSIVE MostConstrainedRow(_, _, _, _)
\* for col in range(self.size): .. ; best is [dom, location], location None is
\* the empty tuple
MostConstrainedRow(s, row, col, best) ==
    IF col = size THEN best
    ELSE LET e == s.board[row][col]
         IN  MostConstrainedRow(s, row, col + 1,
                 IF ~is_fixed(e) /\ width(e) <= best.dom
                 THEN [dom |-> width(e), location |-> <<row, col>>]
                 ELSE best)

RECURSIVE MostConstrainedScan(_, _, _)
\* for row in range(self.size): for col in range(self.size): ..
\* (dom starts at size and only takes list lengths that are no larger: the
\* CASE makes the row's result a value before the next row starts)
MostConstrainedScan(s, row, best) ==
    IF row = size THEN best
    ELSE LET after == MostConstrainedRow(s, row, 0, best)
         IN  CASE after.dom <= size -> MostConstrainedScan(s, row + 1, after)

\* The number row * size + col of a cell.
CellNumber(rc) == rc[1] * size + rc[2]

\* get_most_constrained_cell with "<" for "<=" in its comparison: a cell
\* replaces the current one only when its domain is strictly smaller.
get_most_constrained_cell_strict(s) ==
    LET cand == {rc \in Cells : /\ ~is_fixed(s.board[rc[1]][rc[2]])
                                /\ width(s.board[rc[1]][rc[2]]) < size}
    IN  IF cand = {} THEN <<>>
        ELSE CHOOSE rc \in cand : \A pc \in cand :
                 \/ width(s.board[rc[1]][rc[2]]) < width(s.board[pc[1]][pc[2]])
                 \/ /\ width(s.board[rc[1]][rc[2]]) = width(s.board[pc[1]][pc[2]])
                    /\ CellNumber(rc) <= CellNumber(pc)

\* get_most_constrained_cell without the is_fixed test of its comparison.
get_most_constrained_cell_any(s) ==
    LET cand == {rc \in Cells : width(s.board[rc[1]][rc[2]]) <= size}
    IN  IF cand = {} THEN <<>>
        ELSE CHOOSE rc \in cand : \A pc \in cand :
                 \/ width(s.board[rc[1]][rc[2]]) < width(s.board[pc[1]][pc[2]])
                 \/ /\ width(s.board[rc[1]][rc[2]]) = width(s.board[pc[1]][pc[2]])
                    /\ CellNumber(rc) >= CellNumber(pc)

get_most_constrained_cell(s) ==
    MostConstrainedScan(s, 0, [dom |-> size, location |-> <<>>]).location

\* solution_is_possible looking at the fixed cells only.
solution_is_possible_fixed_only(s) ==
    ~ \E row \in Idx, col \in Idx :
          is_fixed(s.board[row][col]) /\ has_conflict(s.board[row][col])

solution_is_possible(s) ==
    ~ \E row \in Idx, col \in Idx : has_conflict(s.board[row][col])

\* is_goal counting one cell short.
is_goal_off_by_one(s) == size * size - 1 = s.num_placed

is_goal(s) == size * size = s.num_placed

\* The cells the two nested loops of propagate stop at, from the cell numbered
\* rc = ri * size + ci on: the board changes only when the loop has stopped
Forced(s, rc) ==
    {k \in rc .. (size * size - 1) :
        /\ ~is_fixed(s.board[k \div size][k % size])
        /\ width(s.board[k \div size][k % size]) = 1}

RECURSIVE PropagateOnePass(_, _, _)
\* propagate as a single pass: after an add_number the scan goes on from the
\* next cell and never starts again.
PropagateOnePass(s, rc, log) ==
    IF s.exc \/ Forced(s, rc) = {} THEN [state |-> s, log |-> log]
    ELSE LET k == CHOOSE x \in Forced(s, rc) : \A y \in Forced(s, rc) : x <= y
             ri == k \div size
             ci == k % size
             s1 == add_number(s, ri, ci, values(s.board[ri][ci])[1])
         IN  PropagateOnePass(s1, k + 1,
                              Append(log, solution_is_possible(s1)))

\* propagate without the recursive call: the first cell found is fixed and
\* the call returns.
PropagateFirstOnly(s, rc, log) ==
    IF s.exc \/ Forced(s, rc) = {} THEN [state |-> s, log |-> log]
    ELSE LET k == CHOOSE x \in Forced(s, rc) : \A y \in Forced(s, rc) : x <= y
             ri == k \div size
             ci == k % size
             s1 == add_number(s, ri, ci, values(s.board[ri][ci])[1])
         IN  [state |-> s1, log |-> Append(log, solution_is_possible(s1))]

RECURSIVE PropagateScan(_, _, _)
\* propagate, scanning from cell rc = ri * size + ci on.  log records, for
\* each add_number the call has made so far, whether the board was still
\* possible after it.
PropagateScan(s, rc, log) ==
    IF s.exc \/ Forced(s, rc) = {} THEN [state |-> s, log |-> log]
    ELSE LET k == CHOOSE x \in Forced(s, rc) : \A y \in Forced(s, rc) : x <= y
             ri == k \div size
             ci == k % size
             s1 == add_number(s, ri, ci, values(s.board[ri][ci])[1])
             ok == solution_is_possible(s1)
         IN  IF ~s1.exc /\ ok
             THEN PropagateScan(s1, 0, Append(log, ok))
             ELSE PropagateScan(s1, k + 1, Append(log, ok))

propagate(s) == PropagateScan(s, 0, <<>>).state

RECURSIVE NextStatesLoop(_, _, _, _, _)
\* the for loop of next_states over self.board[row][col].values(), at index i;
\* copy.deepcopy(self) is a board equal to s that shares nothing with it
NextStatesLoop(s, row, col, i, next_state) ==
    IF i > Len(values(s.board[row][col]))
    THEN [exc |-> FALSE, states |-> next_state]
    ELSE LET value == values(s.board[row][col])[i]
             new_board == propagate(add_number(s, row, col, value))
         IN  IF new_board.exc
             THEN [exc |-> TRUE, states |-> next_state]
             ELSE NextStatesLoop(s, row, col, i + 1,
                      IF solution_is_possible(new_board)
                      THEN Append(next_state, new_board)
                      ELSE next_state)

\* next_states without the solution_is_possible test: every branch is kept.
next_states_unfiltered(s) ==
    LET location == get_most_constrained_cell(s)
    IN  IF location = <<>>
        THEN [exc |-> TRUE, states |-> <<>>]
        ELSE [exc |-> FALSE,
              states |->
                  [i \in 1 .. width(s.board[location[1]][location[2]]) |->
                      propagate(add_number(s, location[1], location[2],
                          values(s.board[location[1]][location[2]])[i]))]
                  \o <<>>]

\* next_states with its loop started at the second value of the domain.
next_states_from_second(s) ==
    LET location == get_most_constrained_cell(s)
    IN  IF location = <<>>
        THEN [exc |-> TRUE, states |-> <<>>]
        ELSE NextStatesLoop(s, location[1], location[2], 2, <<>>)

\* next_states: exc when get_most_constrained_cell returned None (unpacking
\* None raises)
next_states(s) ==
    LET location == get_most_constrained_cell(s)
    IN  IF location = <<>>
        THEN [exc |-> TRUE, states |-> <<>>]
        ELSE NextStatesLoop(s, location[1], location[2], 1, <<>>)

RECURSIVE dfs(_)
RECURSIVE DfsLoop(_, _, _)
\* for s in state.next_states(): result += dfs(s)
DfsLoop(ss, i, result) ==
    IF i > Len(ss) THEN [exc |-> FALSE, result |-> result]
    ELSE LET r == dfs(ss[i])
         IN  IF r.exc THEN [exc |-> TRUE, result |-> result]
             ELSE DfsLoop(ss, i + 1, result \o r.result)

dfs(state) ==
    IF is_goal(state)
    THEN [exc |-> FALSE, result |-> <<state>>]
    ELSE LET ns == next_states(state)
         IN  IF ns.exc THEN [exc |-> TRUE, result |-> <<>>]
             ELSE DfsLoop(ns.states, 1, <<>>)

\* ------------------------------------------------------------- start boards

\* The solved grid printed in the sample output of Problem 1.
Solution ==
    << <<4, 7, 2, 6, 8, 3, 5, 1, 9>>,
       <<3, 1, 9, 7, 5, 4, 2, 6, 8>>,
       <<5, 6, 8, 9, 1, 2, 3, 4, 7>>,
       <<1, 4, 3, 5, 6, 7, 8, 9, 2>>,
       <<2, 9, 5, 1, 4, 8, 6, 7, 3>>,
       <<7, 8, 6, 3, 2, 9, 1, 5, 4>>,
       <<6, 2, 4, 8, 9, 5, 7, 3, 1>>,
       <<8, 5, 7, 4, 3, 1, 9, 2, 6>>,
       <<9, 3, 1, 2, 7, 6, 4, 8, 5>> >>

SolutionAt(row, col) == Solution[row + 1][col + 1]

\* The values the caller passes to add_number after construction.
InputVals == {1, 3, 4}

\* The cells the caller passes to add_number after construction.
InputCells == {rc \in Cells : SolutionAt(rc[1], rc[2]) \in InputVals}

\* The cells left open by a start board: the input cells from row first on.
HolesFrom(first) == {rc \in InputCells : rc[1] >= first}

\* Open cells of the start boards: the empty board, boards of the solved grid
\* with the input cells of the lower rows left open (propagate alone
\* completes the last of them), the completed board.
StartHoles == {Cells, HolesFrom(1), HolesFrom(3), HolesFrom(8), {}}

\* ------------------------------------------------------------- objects

\* The objects behind the boards.  heap.entries[e] is the SudokuEntry object
\* at address e (its domain list is reachable through the entry alone);
\* heap.states[a] is the SudokuState object at address a, [num_placed, board],
\* board being the addresses of its 81 entries in row-major order.

\* SudokuState(): one state object on 81 new entry objects
NewHeap ==
    [entries |-> [k \in 1 .. size * size |-> NewEntry] \o <<>>,
     states |-> << [num_placed |-> 0,
                    board |-> [k \in 1 .. size * size |-> k] \o <<>>] >>]

\* The address of the board the caller builds.
Parent == 1

\* The address of the entry self.board[row][col] of the state at a.
EntryOf(h, a, row, col) == h.states[a].board[row * size + col + 1]

\* The addresses of the entries of the state at a.
EntriesOf(h, a) == {h.states[a].board[k] : k \in 1 .. size * size}

\* The board the state object at a holds: what its methods read.
Load(h, a) ==
    [num_placed |-> h.states[a].num_placed,
     board |-> [row \in Idx |->
                   [col \in Idx |-> h.entries[EntryOf(h, a, row, col)]]],
     exc |-> FALSE]

\* The heap after a method of the state at a has left it holding s: the
\* method writes self.num_placed and the entries of self.board, nothing else.
Store(h, a, s) ==
    LET own == EntriesOf(h, a)
        cell == [e \in own |->
                    CHOOSE k \in 1 .. size * size : h.states[a].board[k] = e]
    IN  [entries |->
             [e \in 1 .. Len(h.entries) |->
                 IF e \in own
                 THEN s.board[(cell[e] - 1) \div size][(cell[e] - 1) % size]
                 ELSE h.entries[e]] \o <<>>,
         states |-> [h.states EXCEPT ![a].num_placed = s.num_placed]]

\* copy.copy(self): a new SudokuState object on the board of the old one.
copy_copy(h, a) ==
    [entries |-> h.entries,
     states |-> Append(h.states, h.states[a])]

\* copy.deepcopy(self): a new SudokuState object, at the last address, on new
\* entry objects that hold what the entries of the state at a hold
deepcopy(h, a) ==
    [entries |-> h.entries \o
                 [k \in 1 .. size * size |-> h.entries[h.states[a].board[k]]],
     states |-> Append(h.states,
                    [num_placed |-> h.states[a].num_placed,
                     board |-> [k \in 1 .. size * size |->
                                   Len(h.entries) + k] \o <<>>])]

RECURSIVE HeapNextStatesLoop(_, _, _, _, _, _)
\* the for loop of next_states on the state object at a, at index i of the
\* list self.board[row][col].values() as it is when the iteration starts;
\* next_state holds the addresses of the states appended so far
HeapNextStatesLoop(h, a, row, col, i, next_state) ==
    IF i > Len(values(h.entries[EntryOf(h, a, row, col)]))
    THEN [heap |-> h, exc |-> FALSE, states |-> next_state]
    ELSE LET value == values(h.entries[EntryOf(h, a, row, col)])[i]
             copied == deepcopy(h, a)
             new_board == Len(copied.states)
             s1 == propagate(add_number(Load(copied, new_board),
                                        row, col, value))
             h1 == Store(copied, new_board, s1)
         IN  IF s1.exc
             THEN [heap |-> h1, exc |-> TRUE, states |-> next_state]
             ELSE HeapNextStatesLoop(h1, a, row, col, i + 1,
                      IF solution_is_possible(s1)
                      THEN Append(next_state, new_board)
                      ELSE next_state)

\* next_states on the state object at a
heap_next_states(h, a) ==
    LET location == get_most_constrained_cell(Load(h, a))
    IN  IF location = <<>>
        THEN [heap |-> h, exc |-> TRUE, states |-> <<>>]
        ELSE HeapNextStatesLoop(h, a, location[1], location[2], 1, <<>>)

RECURSIVE heap_dfs(_, _)
RECURSIVE HeapDfsLoop(_, _, _, _)
\* for s in state.next_states(): result += dfs(s), on objects
HeapDfsLoop(h, ss, i, result) ==
    IF i > Len(ss) THEN [heap |-> h, exc |-> FALSE, states |-> result]
    ELSE LET r == heap_dfs(h, ss[i])
         IN  IF r.exc THEN [heap |-> r.heap, exc |-> TRUE, states |-> result]
             ELSE HeapDfsLoop(r.heap, ss, i + 1, result \o r.states)

\* dfs on the state object at a
heap_dfs(h, a) ==
    IF is_goal(Load(h, a))
    THEN [heap |-> h, exc |-> FALSE, states |-> <<a>>]
    ELSE LET ns == heap_next_states(h, a)
         IN  IF ns.exc THEN [heap |-> ns.heap, exc |-> TRUE, states |-> <<>>]
             ELSE HeapDfsLoop(ns.heap, ns.states, 1, <<>>)

\* ------------------------------------------------------------- the caller

Unfixed(s) == {rc \in Cells : ~is_fixed(s.board[rc[1]][rc[2]])}

\* b with no exception pending: the board a new call starts from
Cleared == [b EXCEPT !.exc = FALSE]

\* The numbers row * size + col of the clue cells still to be given.
CluesLeft ==
    {k \in pos .. (size * size - 1) : <<k \div size, k % size>> \notin holes}

\* The puzzle function has returned its board, and the last call was not a
\* query: a query leaves the board as it was, so whatever can follow a query
\* can as well follow the call before it.
Ready ==
    /\ CluesLeft = {}
    /\ op \in {"init", "add_number", "propagate"}

\* b = SudokuState(), in a puzzle function that is about to give the clues of
\* the solved grid outside holes
Init ==
    /\ b = NewState
    /\ holes \in StartHoles
    /\ pos = 0
    /\ given = {}
    /\ op = "init"
    /\ ret = <<>>
    /\ adds = 0
    /\ contract = TRUE
    /\ heap = NewHeap

\* The next b.add_number(row, col, v) line of the puzzle function: the clues
\* are given in row-major order, as problem1() gives them.
GiveClueStep ==
    /\ CluesLeft # {}
    /\ LET k == CHOOSE x \in CluesLeft : \A y \in CluesLeft : x <= y
           row == k \div size
           col == k % size
       IN  /\ b' = add_number(Cleared, row, col, SolutionAt(row, col))
           /\ ret' = <<row, col, SolutionAt(row, col)>>
           /\ given' = given \cup {<<row, col, SolutionAt(row, col)>>}
           /\ contract' = (contract /\ ~is_fixed(b.board[row][col])
                                    /\ Contains(b.board[row][col].domain,
                                                SolutionAt(row, col)))
           /\ pos' = k + 1
    /\ op' = "add_number"
    /\ UNCHANGED <<adds, holes>>

GiveClue == GiveClueStep /\ UNCHANGED heap

\* b.add_number(row, col, num), with or without its precondition
AddNumberStep(row, col, num) ==
    /\ Ready
    /\ adds < MaxAdds
    /\ b' = add_number(Cleared, row, col, num)
    /\ op' = "add_number"
    /\ ret' = <<row, col, num>>
    /\ adds' = adds + 1
    /\ given' = IF b'.exc THEN given ELSE given \cup {<<row, col, num>>}
    /\ contract' = (contract /\ ~is_fixed(b.board[row][col])
                             /\ Contains(b.board[row][col].domain, num))
    /\ UNCHANGED <<holes, pos>>

AddNumberCall(row, col, num) == AddNumberStep(row, col, num) /\ UNCHANGED heap

\* b.propagate(); ret is the log of the add_number calls it made
PropagateCall ==
    /\ Ready
    /\ b' = propagate(Cleared)
    /\ ret' = PropagateScan(Cleared, 0, <<>>).log
    /\ op' = "propagate"
    /\ UNCHANGED <<adds, given, contract, holes, pos, heap>>

\* b.get_most_constrained_cell()
MostConstrainedCall ==
    /\ Ready
    /\ b' = Cleared
    /\ op' = "get_most_constrained_cell"
    /\ ret' = get_most_constrained_cell(Cleared)
    /\ UNCHANGED <<adds, given, contract, holes, pos, heap>>

\* b.next_states()
NextStatesCall ==
    /\ Ready
    /\ ret' = next_states(Cleared)
    /\ b' = [b EXCEPT !.exc = ret'.exc]
    /\ op' = "next_states"
    /\ UNCHANGED <<adds, given, contract, holes, pos, heap>>

\* dfs(b)
DfsCall ==
    /\ Ready
    /\ Cardinality(Unfixed(b)) <= MaxSearchHoles
    /\ ret' = dfs(Cleared)
    /\ b' = [b EXCEPT !.exc = ret'.exc]
    /\ op' = "dfs"
    /\ UNCHANGED <<adds, given, contract, holes, pos, heap>>

Next ==
    \/ GiveClue
    \/ \E rc \in InputCells, num \in InputVals : AddNumberCall(rc[1], rc[2], num)
    \/ PropagateCall
    \/ MostConstrainedCall
    \/ NextStatesCall
    \/ DfsCall

Spec == Init /\ [][Next]_vars

\* ------------------------------------------------- the caller, on objects

\* Under HeapSpec b is the board the parent object held when the caller made
\* its last call on it, and ret.states holds addresses.

\* The next b.add_number(row, col, v) line of the puzzle function
HeapGiveClue == GiveClueStep /\ heap' = Store(heap, Parent, b')

\* b.add_number(row, col, num), with or without its precondition
HeapAddNumberCall(row, col, num) ==
    AddNumberStep(row, col, num) /\ heap' = Store(heap, Parent, b')

\* successors = b.next_states()
HeapNextStatesCall ==
    /\ Ready
    /\ LET r == heap_next_states(heap, Parent)
       IN  /\ heap' = r.heap
           /\ ret' = [exc |-> r.exc, states |-> r.states]
    /\ b' = [b EXCEPT !.exc = ret'.exc]
    /\ op' = "next_states"
    /\ UNCHANGED <<adds, given, contract, holes, pos>>

\* dfs(b)
HeapDfsCall ==
    /\ Ready
    /\ Cardinality(Unfixed(b)) <= MaxSearchHoles
    /\ LET r == heap_dfs(heap, Parent)
       IN  /\ heap' = r.heap
           /\ ret' = [exc |-> r.exc, states |-> r.states]
    /\ b' = [b EXCEPT !.exc = ret'.exc]
    /\ op' = "dfs"
    /\ UNCHANGED <<adds, given, contract, holes, pos>>

\* successors[i - 1].propagate()
HeapSuccessorPropagate(i) ==
    /\ op = "next_states"
    /\ i <= Len(ret.states)
    /\ heap' = Store(heap, ret.states[i], propagate(Load(heap, ret.states[i])))
    /\ op' = "successor.propagate"
    /\ UNCHANGED <<b, ret, adds, given, contract, holes, pos>>

\* successors[i - 1].add_number(row, col, num)
HeapSuccessorAdd(i, row, col, num) ==
    /\ op \in {"next_states", "successor.propagate"}
    /\ i <= Len(ret.states)
    /\ adds < MaxAdds
    /\ heap' = Store(heap, ret.states[i],
                     add_number(Load(heap, ret.states[i]), row, col, num))
    /\ op' = "successor.add_number"
    /\ adds' = adds + 1
    /\ UNCHANGED <<b, ret, given, contract, holes, pos>>

HeapNext ==
    \/ HeapGiveClue
    \/ \E rc \in InputCells, num \in InputVals :
           HeapAddNumberCall(rc[1], rc[2], num)
    \/ HeapNextStatesCall
    \/ HeapDfsCall
    \/ \E i \in 1 .. size : HeapSuccessorPropagate(i)
    \/ \E i \in 1 .. size, rc \in InputCells, num \in InputVals :
           HeapSuccessorAdd(i, rc[1], rc[2], num)

HeapSpec == Init /\ [][HeapNext]_vars

\* ------------------------------------------- the caller, on single entries

\* b.board[row][col].eliminate(n), called on the entry itself
EliminateCall(row, col, n) ==
    /\ Ready
    /\ adds < MaxAdds
    /\ LET r == eliminate(b.board[row][col], n)
       IN  b' = [Cleared EXCEPT !.board[row][col] = r.entry, !.exc = r.exc]
    /\ op' = "eliminate"
    /\ ret' = <<row, col, n>>
    /\ adds' = adds + 1
    /\ contract' = FALSE
    /\ UNCHANGED <<given, holes, pos, heap>>

\* b.board[row][col].fix(n), called on the entry itself
FixCall(row, col, n) ==
    /\ Ready
    /\ adds < MaxAdds
    /\ LET r == fix(b.board[row][col], n)
       IN  b' = [Cleared EXCEPT !.board[row][col] = r.entry, !.exc = r.exc]
    /\ op' = "fix"
    /\ ret' = <<row, col, n>>
    /\ adds' = adds + 1
    /\ contract' = FALSE
    /\ UNCHANGED <<given, holes, pos, heap>>

EntryNext ==
    \/ GiveClue
    \/ \E rc \in Cells, n \in 1 .. size : EliminateCall(rc[1], rc[2], n)
    \/ \E rc \in Cells, n \in 1 .. size : FixCall(rc[1], rc[2], n)

EntrySpec == Init /\ [][EntryNext]_vars

\* ------------------------------------------------------ problem1 and dfs

\* The b.add_number(row, col, num) lines of problem1().
Problem1Givens ==
    {<<0, 1, 7>>, <<0, 7, 1>>, <<1, 2, 9>>, <<1, 3, 7>>,
     <<1, 5, 4>>, <<1, 6, 2>>, <<2, 2, 8>>, <<2, 3, 9>>,
     <<2, 6, 3>>, <<3, 1, 4>>, <<3, 2, 3>>, <<3, 4, 6>>,
     <<4, 1, 9>>, <<4, 3, 1>>, <<4, 5, 8>>, <<4, 7, 7>>,
     <<5, 4, 2>>, <<5, 6, 1>>, <<5, 7, 5>>, <<6, 2, 4>>,
     <<6, 5, 5>>, <<6, 6, 7>>, <<7, 2, 7>>, <<7, 3, 4>>,
     <<7, 5, 1>>, <<7, 6, 9>>, <<8, 1, 3>>, <<8, 7, 8>>}

Problem1Holes ==
    {rc \in Cells : \A g \in Problem1Givens : <<g[1], g[2]>> # rc}

\* b = SudokuState(), in problem1()
Problem1Init ==
    /\ b = NewState
    /\ holes = Problem1Holes
    /\ pos = 0
    /\ given = {}
    /\ op = "init"
    /\ ret = <<>>
    /\ adds = 0
    /\ contract = TRUE
    /\ heap = NewHeap

\* The next b.add_number(row, col, num) line of problem1(): the lines come in
\* row-major order of their cells.
Problem1GiveClue ==
    /\ CluesLeft # {}
    /\ LET k == CHOOSE x \in CluesLeft : \A y \in CluesLeft : x <= y
           g == CHOOSE x \in Problem1Givens : CellNumber(x) = k
       IN  /\ b' = add_number(Cleared, g[1], g[2], g[3])
           /\ ret' = g
           /\ given' = given \cup {g}
           /\ contract' = (contract /\ ~is_fixed(b.board[g[1]][g[2]])
                                    /\ Contains(b.board[g[1]][g[2]].domain,
                                                g[3]))
           /\ pos' = k + 1
    /\ op' = "add_number"
    /\ UNCHANGED <<adds, holes, heap>>

\* dfs(problem1())
Problem1DfsCall ==
    /\ Ready
    /\ adds = 0
    /\ op = "add_number"
    /\ ret' = dfs(Cleared)
    /\ b' = [b EXCEPT !.exc = ret'.exc]
    /\ op' = "dfs"
    /\ UNCHANGED <<adds, given, contract, holes, pos, heap>>

Problem1Next ==
    \/ Problem1GiveClue
    \/ Problem1DfsCall
    \/ \E rc \in InputCells, num \in InputVals : AddNumberCall(rc[1], rc[2], num)
    \/ PropagateCall
    \/ MostConstrainedCall
    \/ NextStatesCall

Problem1Spec == Problem1Init /\ [][Problem1Next]_vars

\* ------------------------------------------------------------- reference

\* The cells sharing a row, a column or a 3x3 subgrid with (row, col).
Peers(row, col) ==
    {pc \in Cells \ {<<row, col>>} :
        \/ pc[1] = row
        \/ pc[2] = col
        \/ /\ pc[1] \div 3 = row \div 3
           /\ pc[2] \div 3 = col \div 3}

\* A grid is the sequence of the 81 cell values in row-major order, 0 for no
\* value: the cell (row, col) is element row * size + col + 1.
\* GridOf(s): the values the fixed cells of s hold.
GridOf(s) ==
    [k \in 1 .. size * size |->
        LET e == s.board[(k - 1) \div size][(k - 1) % size]
        IN  IF e.fixed /\ Len(e.domain) = 1 THEN e.domain[1] ELSE 0] \o <<>>

GridAt(g, row, col) == g[row * size + col + 1]

ConflictFree(g) ==
    \A rc \in Cells :
        GridAt(g, rc[1], rc[2]) # 0 =>
            \A pc \in Peers(rc[1], rc[2]) :
                GridAt(g, pc[1], pc[2]) # GridAt(g, rc[1], rc[2])

RECURSIVE Fill(_, _)
\* Every conflict-free completion of the partial grid g in the cells open,
\* found by trying each value 1..9 in each open cell in turn (no domains, no
\* heuristic).
Fill(g, open) ==
    IF open = {} THEN {g}
    ELSE LET rc == CHOOSE x \in open : TRUE
         IN  UNION {Fill([g EXCEPT ![rc[1] * size + rc[2] + 1] = v],
                         open \ {rc}) :
                      v \in {w \in 1 .. 9 :
                                \A pc \in Peers(rc[1], rc[2]) :
                                    GridAt(g, pc[1], pc[2]) # w}}

\* Every valid completion of the givens of s.
Completions(s) ==
    IF ConflictFree(GridOf(s))
    THEN Fill(GridOf(s), {rc \in Cells : GridAt(GridOf(s), rc[1], rc[2]) = 0})
    ELSE {}

\* s is a valid completed grid.
ValidCompleted(s) ==
    /\ s.num_placed = 81
    /\ solution_is_possible(s)
    /\ \A rc \in Cells :
          /\ s.board[rc[1]][rc[2]].fixed
          /\ Len(s.board[rc[1]][rc[2]].domain) = 1
    /\ \A rc \in Cells : \A pc \in Peers(rc[1], rc[2]) :
          s.board[rc[1]][rc[2]].domain # s.board[pc[1]][pc[2]].domain

KeepsGivens(s) ==
    \A g \in given : s.board[g[1]][g[2]].domain = <<g[3]>>

\* ------------------------------------------------------------- claims

\* C1: on a board built by add_number calls that respect the precondition,
\* every state dfs returns is a valid completed grid (81 placed, possible,
\* every cell fixed with one value, no two peers equal) that keeps every clue.
C1_DfsReturnsValidGrids ==
    (op = "dfs" /\ contract) =>
        \A i \in 1 .. Len(ret.result) :
            ValidCompleted(ret.result[i]) /\ KeepsGivens(ret.result[i])

C1_Witness ==
    /\ op = "dfs"
    /\ contract
    /\ adds > 0
    /\ Len(ret.result) >= 2

\* C2: on such a board dfs returns every valid completion of the givens, each
\* exactly once, and the empty list when there is none.
C2_DfsReturnsAllCompletions ==
    (op = "dfs" /\ contract) =>
        /\ ~ret.exc
        /\ {GridOf(ret.result[i]) : i \in 1 .. Len(ret.result)} = Completions(b)
        /\ Len(ret.result) = Cardinality(Completions(b))

C2_Witness ==
    /\ op = "dfs"
    /\ contract
    /\ Len(ret.result) >= 3
    /\ \E rc \in Cells : Len(b.board[rc[1]][rc[2]].domain) = 1 /\ ~b.board[rc[1]][rc[2]].fixed

C2_WitnessNone ==
    /\ op = "dfs"
    /\ contract
    /\ Len(ret.result) = 0
    /\ solution_is_possible(b)

FixedCells(s) == Cells \ Unfixed(s)

\* C3: after every add_number and every propagate, in any sequence of such
\* calls, num_placed is the number of cells whose fixed flag is true.
C3_NumPlacedCountsFixed ==
    b.num_placed = Cardinality(FixedCells(b))

\* The case in which C3 fails: add_number has returned normally on a cell that
\* was fixed already.
C3_Witness ==
    /\ op = "add_number"
    /\ ~b.exc
    /\ ~contract
    /\ b.num_placed > Cardinality(FixedCells(b))

\* The unfixed cells whose domain is as small as any unfixed cell's.
Smallest(s) ==
    {rc \in Unfixed(s) :
        \A pc \in Unfixed(s) :
            width(s.board[rc[1]][rc[2]]) <= width(s.board[pc[1]][pc[2]])}

\* C4 (as the code has it): when several unfixed cells share the smallest
\* domain size, get_most_constrained_cell returns the one met LAST in the
\* row-major scan; on the empty board it returns (8, 8).
C4_TieGoesToLastCell ==
    (op = "get_most_constrained_cell" /\ ret # <<>>) =>
        /\ \A rc \in Smallest(b) : CellNumber(rc) <= CellNumber(ret)
        /\ b.board = NewState.board => ret = <<size - 1, size - 1>>

C4_Witness ==
    /\ op = "get_most_constrained_cell"
    /\ b.num_placed > 0
    /\ ret \in Smallest(b)
    /\ \E rc \in Smallest(b) : CellNumber(rc) < CellNumber(ret)

\* C4 (as stated): when several unfixed cells share the smallest domain size,
\* get_most_constrained_cell returns the one met first in the row-major scan;
\* on the empty board it returns (0, 0).
C4_TieGoesToFirstCell ==
    (op = "get_most_constrained_cell" /\ ret # <<>>) =>
        /\ \A rc \in Smallest(b) : CellNumber(ret) <= CellNumber(rc)
        /\ b.board = NewState.board => ret = <<0, 0>>

\* C5: get_most_constrained_cell returns an unfixed cell whose domain size is
\* the minimum over the unfixed cells (0 included), None exactly when no cell
\* is unfixed, and never a cell that an add_number call has fixed.
C5_ReturnsSmallestUnfixedCell ==
    op = "get_most_constrained_cell" =>
        /\ ret = <<>> <=> Unfixed(b) = {}
        /\ ret # <<>> => ret \in Smallest(b)
        /\ \A g \in given : ret # <<g[1], g[2]>>

C5_Witness ==
    /\ op = "get_most_constrained_cell"
    /\ adds > 0
    /\ ret # <<>>
    /\ has_conflict(b.board[ret[1]][ret[2]])
    /\ \E rc \in Unfixed(b) : ~has_conflict(b.board[rc[1]][rc[2]])

\* The cell next_states branches on, and the branch it builds for value v:
\* copy.deepcopy(self), add_number at the cell, propagate.
Chosen == get_most_constrained_cell(b)

ChosenDomain == values(b.board[Chosen[1]][Chosen[2]])

Branch(v) == propagate(add_number(Cleared, Chosen[1], Chosen[2], v))

\* The value a successor holds at the chosen cell.
BranchValue(s) == values(s.board[Chosen[1]][Chosen[2]])[1]

\* C6: on a board with an unfixed cell next_states returns, in ascending
\* order of the branch value, exactly one state for each value of the chosen
\* cell's domain whose branch ends possible, and none for the other values;
\* every returned state is possible; an empty domain gives the empty list.
C6_NextStatesKeepsPossibleBranches ==
    (op = "next_states" /\ Unfixed(b) # {}) =>
        /\ ~ret.exc
        /\ \A i \in 1 .. Len(ret.states) :
              /\ Contains(ChosenDomain, BranchValue(ret.states[i]))
              /\ ret.states[i] = Branch(BranchValue(ret.states[i]))
              /\ solution_is_possible(ret.states[i])
        /\ \A i \in 1 .. Len(ret.states) : \A j \in (i + 1) .. Len(ret.states) :
              BranchValue(ret.states[i]) < BranchValue(ret.states[j])
        /\ \A i \in 1 .. Len(ChosenDomain) :
              solution_is_possible(Branch(ChosenDomain[i])) <=>
                  \E k \in 1 .. Len(ret.states) :
                      BranchValue(ret.states[k]) = ChosenDomain[i]
        /\ ChosenDomain = <<>> => ret.states = <<>>

\* C6, a branch kept and a branch dropped by the same call.
C6_Witness ==
    /\ op = "next_states"
    /\ ~ret.exc
    /\ Len(ret.states) >= 1
    /\ Len(ret.states) < Len(ChosenDomain)

\* C6, several branches kept: the order of the list shows.
C6_WitnessOrder ==
    /\ op = "next_states"
    /\ ~ret.exc
    /\ Len(ret.states) >= 3

\* C6, the dead end: the chosen cell's domain is empty.
C6_WitnessDeadEnd ==
    /\ op = "next_states"
    /\ ~ret.exc
    /\ Unfixed(b) # {}
    /\ ChosenDomain = <<>>

\* C8 (as the code has it): propagate is idempotent on every board that is
\* still possible when the first call returns: a second call in succession
\* leaves the same domains, fixed flags and num_placed.
C8_PropagateIdempotentWhenPossible ==
    (op = "propagate" /\ solution_is_possible(b)) => propagate(b) = b

\* A first call that fixed a cell that an earlier fix of the same call forced.
C8_Witness ==
    /\ op = "propagate"
    /\ solution_is_possible(b)
    /\ Len(ret) >= 2
    /\ propagate(b) = b

\* C8 (as stated): propagate is idempotent on every board, whether or not the
\* board is or becomes impossible.
C8_PropagateIdempotent ==
    op = "propagate" => propagate(b) = b

\* C9: within one propagate call, once an add_number has left the board
\* impossible no further cell is fixed: the add_number that made the board
\* impossible is the last one of the call.
C9_PropagateStopsWhenImpossible ==
    op = "propagate" => \A i \in 1 .. (Len(ret) - 1) : ret[i]

\* The case in which C9 fails: the board was possible when propagate was
\* called, and the call went on fixing cells after the board became impossible.
C9_Witness ==
    /\ op = "propagate"
    /\ Len(ret) >= 3
    /\ ret[1]
    /\ ~ret[Len(ret) - 1]
    /\ b.num_placed = Cardinality(FixedCells(b))

\* C10: add_number on a cell that is already fixed fails by assertion for
\* every value, the value the cell holds included, and changes neither
\* num_placed nor any domain.
C10_AddNumberOnFixedCellFails ==
    [][\A rc \in InputCells, num \in InputVals :
          (AddNumberCall(rc[1], rc[2], num) /\ is_fixed(b.board[rc[1]][rc[2]]))
              => /\ b'.exc
                 /\ b'.num_placed = b.num_placed
                 /\ b'.board = b.board]_vars

\* The case in which C10 fails: add_number has returned normally although its
\* cell was fixed (to the value passed), and has counted the cell again.
C10_Witness ==
    /\ op = "add_number"
    /\ adds > 0
    /\ ~b.exc
    /\ ~contract
    /\ is_fixed(b.board[ret[1]][ret[2]])
    /\ b.num_placed = Cardinality(FixedCells(b)) + 1

\* The calls after which a successor exists.
Branched ==
    op \in {"next_states", "dfs", "successor.propagate", "successor.add_number"}

\* C7: next_states, the dfs calls on its results, and later add_number and
\* propagate calls on a successor leave the parent as it was before the call
\* (num_placed, every domain, every fixed flag); the returned states are
\* distinct objects, and no two of them, nor one of them and the parent,
\* share an entry (dfs on a board that is a goal already returns that board
\* itself, and nothing else).
C7_ParentKeptAndNoCellShared ==
    Branched =>
        /\ Load(heap, Parent).num_placed = b.num_placed
        /\ Load(heap, Parent).board = b.board
        /\ \A i \in 1 .. Len(ret.states) :
              \/ op = "dfs" /\ is_goal(b) /\ ret.states = <<Parent>>
              \/ /\ ret.states[i] # Parent
                 /\ EntriesOf(heap, ret.states[i])
                        \cap EntriesOf(heap, Parent) = {}
        /\ \A i \in 1 .. Len(ret.states) :
              \A j \in (i + 1) .. Len(ret.states) :
                  /\ ret.states[i] # ret.states[j]
                  /\ EntriesOf(heap, ret.states[i])
                         \cap EntriesOf(heap, ret.states[j]) = {}

\* A later add_number on one of several successors has changed that
\* successor: it is no longer the branch next_states built.
C7_Witness ==
    /\ op = "successor.add_number"
    /\ Len(ret.states) >= 2
    /\ \E i \in 1 .. Len(ret.states) :
          Load(heap, ret.states[i])
              # Branch(BranchValue(Load(heap, ret.states[i])))

\* C11: add_number with a value that is not in the cell's domain fails by
\* assertion before any change: num_placed and every cell (domain and fixed
\* flag) are as before the call.
C11_AddNumberOutsideDomainFails ==
    [][\A rc \in InputCells, num \in InputVals :
          (/\ AddNumberCall(rc[1], rc[2], num)
           /\ ~Contains(b.board[rc[1]][rc[2]].domain, num))
              => /\ b'.exc
                 /\ b'.num_placed = b.num_placed
                 /\ b'.board = b.board]_vars

\* add_number has failed on an unfixed cell whose value a fixed peer holds.
C11_Witness ==
    /\ op = "add_number"
    /\ adds > 0
    /\ b.exc
    /\ ~is_fixed(b.board[ret[1]][ret[2]])
    /\ ~Contains(b.board[ret[1]][ret[2]].domain, ret[3])
    /\ \E pc \in Peers(ret[1], ret[2]) :
          /\ is_fixed(b.board[pc[1]][pc[2]])
          /\ b.board[pc[1]][pc[2]].domain = <<ret[3]>>

\* C12: eliminate(n) on a fixed cell fails by assertion for every n in 1..9.
C12_EliminateOnFixedCellFails ==
    (op = "eliminate" /\ is_fixed(b.board[ret[1]][ret[2]])) => b.exc

\* The case in which C12 fails: eliminate has returned normally on a fixed
\* cell, for a value the cell does not hold.
C12_Witness ==
    /\ op = "eliminate"
    /\ is_fixed(b.board[ret[1]][ret[2]])
    /\ ~b.exc
    /\ b.board[ret[1]][ret[2]].domain # <<ret[3]>>

\* C13: right after add_number(r, c, v) has succeeded the cell (r, c) is fixed
\* with domain [v], and no other unfixed cell of row r, of column c or of the
\* subgrid of (r, c) has v in its domain.
C13_NoPeerKeepsTheValue ==
    (op = "add_number" /\ ~b.exc) =>
        /\ is_fixed(b.board[ret[1]][ret[2]])
        /\ b.board[ret[1]][ret[2]].domain = <<ret[3]>>
        /\ \A pc \in Peers(ret[1], ret[2]) :
              ~is_fixed(b.board[pc[1]][pc[2]])
                  => ~Contains(b.board[pc[1]][pc[2]].domain, ret[3])

\* The call has succeeded on a board where the row, the column and the
\* subgrid of the cell each hold another unfixed cell.
C13_Witness ==
    /\ op = "add_number"
    /\ adds > 0
    /\ ~b.exc
    /\ contract
    /\ \E pc \in Unfixed(b) : pc[1] = ret[1] /\ pc[2] # ret[2]
    /\ \E pc \in Unfixed(b) : pc[2] = ret[2] /\ pc[1] # ret[1]
    /\ \E pc \in Unfixed(b) \cap Peers(ret[1], ret[2]) :
          pc[1] # ret[1] /\ pc[2] # ret[2]

\* C14: across add_number and propagate calls no domain gains a value, and a
\* fixed cell stays fixed with the same domain.
C14_DomainsOnlyShrink ==
    [][\A rc \in Cells :
          /\ \A n \in 1 .. size :
                Contains(b'.board[rc[1]][rc[2]].domain, n)
                    => Contains(b.board[rc[1]][rc[2]].domain, n)
          /\ is_fixed(b.board[rc[1]][rc[2]])
                => /\ is_fixed(b'.board[rc[1]][rc[2]])
                   /\ b'.board[rc[1]][rc[2]].domain
                          = b.board[rc[1]][rc[2]].domain]_vars

\* A propagate that has fixed cells, after an add_number of the caller.
C14_Witness ==
    /\ op = "propagate"
    /\ adds > 0
    /\ Len(ret) >= 2

\* The solution grid of the sample output of Problem 1, cell by cell.
SolutionGrid ==
    [k \in 1 .. size * size |->
        SolutionAt((k - 1) \div size, (k - 1) % size)] \o <<>>

\* C15: dfs on the board problem1() builds returns exactly one board; it is
\* complete, every row, column and subgrid of it holds 1..9 once each, and it
\* is the solution grid of the sample output.
C15_Problem1HasTheRecordedSolution ==
    (op = "dfs" /\ given = Problem1Givens) =>
        /\ ~ret.exc
        /\ Len(ret.result) = 1
        /\ ValidCompleted(ret.result[1])
        /\ \A rc \in Cells :
              ret.result[1].board[rc[1]][rc[2]].domain[1] \in 1 .. size
        /\ GridOf(ret.result[1]) = SolutionGrid

C15_Witness ==
    /\ op = "dfs"
    /\ given = Problem1Givens
    /\ b.num_placed = Cardinality(Problem1Givens)
    /\ Cardinality(Problem1Givens) = 28
    /\ Len(ret.result) > 0

\* The recursive calls a propagate call with log made: one after each
\* add_number that left the board possible.
RecursiveCalls(log) == Cardinality({i \in 1 .. Len(log) : log[i]})

\* C16: propagate terminates on every board: num_placed, which each
\* add_number of the call raises by one, never exceeds 81, and the recursion
\* is at most 81 minus the initial num_placed deep.
C16_PropagateDepthBounded ==
    op = "propagate" =>
        /\ b.num_placed <= size * size
        /\ RecursiveCalls(ret)
               <= size * size - (b.num_placed - Len(ret))

\* The case in which C16 fails: propagate was called on a board whose
\* num_placed counted a cell twice, and has fixed every cell left.
C16_Witness ==
    /\ op = "propagate"
    /\ ~contract
    /\ Len(ret) > 0
    /\ Unfixed(b) = {}
    /\ b.num_placed = size * size + 1
    /\ RecursiveCalls(ret) = Len(ret)

RECURSIVE DfsTrace(_, _)
RECURSIVE DfsTraceLoop(_, _, _, _)
\* for s in state.next_states(): result += dfs(s), keeping the trace of the
\* calls made so far
DfsTraceLoop(ss, i, depth, t) ==
    IF t.exc \/ i > Len(ss) THEN t
    ELSE LET r == DfsTrace(ss[i], depth + 1)
         IN  DfsTraceLoop(ss, i + 1, depth,
                 [exc      |-> r.exc,
                  depth    |-> IF r.depth > t.depth THEN r.depth ELSE t.depth,
                  expanded |-> t.expanded \o r.expanded,
                  grows    |-> t.grows /\ r.grows])

\* The trace of dfs(state), called depth calls below the first one: whether
\* it raised, the depth of its deepest call, the boards on which it called
\* next_states, in order, and whether every state that next_states returned
\* had a num_placed greater than its parent's.
DfsTrace(state, depth) ==
    IF is_goal(state)
    THEN [exc |-> FALSE, depth |-> depth, expanded |-> <<>>, grows |-> TRUE]
    ELSE LET ns == next_states(state)
         IN  IF ns.exc
             THEN [exc |-> TRUE, depth |-> depth, expanded |-> <<state>>,
                   grows |-> TRUE]
             ELSE DfsTraceLoop(ns.states, 1, depth,
                      [exc      |-> FALSE,
                       depth    |-> depth,
                       expanded |-> <<state>>,
                       grows    |-> \A i \in 1 .. Len(ns.states) :
                           ns.states[i].num_placed > state.num_placed])

\* No board occurs twice in the sequence.
NoneTwice(boards) ==
    \A i, j \in 1 .. Len(boards) : boards[i] = boards[j] => i = j

\* C17: dfs from any board returns; every state returned by a next_states
\* call it makes has a num_placed greater than its parent's, its recursion is
\* at most 81 minus the initial num_placed deep (so never deeper than 81),
\* and it expands no board twice.
C17_DfsReturnsWithinDepth ==
    op = "dfs" =>
        LET t == DfsTrace(Cleared, 0)
        IN  /\ ~t.exc
            /\ t.grows
            /\ t.depth <= size * size - b.num_placed
            /\ t.depth <= size * size
            /\ NoneTwice(t.expanded)

\* The case in which C17 fails: dfs was called on a board with open cells
\* whose num_placed counted a cell twice; it went one call down and raised.
C17_Witness ==
    /\ op = "dfs"
    /\ ~contract
    /\ Unfixed(b) # {}
    /\ ret.exc
    /\ DfsTrace(Cleared, 0).depth >= 1
    /\ Len(DfsTrace(Cleared, 0).expanded) >= 2

\* The board of the branch for the i-th value of the chosen cell, before
\* propagate: copy.deepcopy(self) and add_number at the cell.
Added(i) == add_number(Cleared, Chosen[1], Chosen[2], ChosenDomain[i])

\* Two unfixed cells of row row, in columns c1 and c2, whose only candidate is
\* the same value.
SameSingleCandidate(s, row, c1, c2) ==
    /\ c1 # c2
    /\ ~is_fixed(s.board[row][c1])
    /\ ~is_fixed(s.board[row][c2])
    /\ width(s.board[row][c1]) = 1
    /\ width(s.board[row][c2]) = 1
    /\ values(s.board[row][c1]) = values(s.board[row][c2])

\* The pairs of columns of row row with such cells.
SameCandidatePairs(s, row) ==
    {cc \in Idx \X Idx : SameSingleCandidate(s, row, cc[1], cc[2])}

\* C18: when the add_number of a branch leaves two unfixed cells of one row
\* with the same single candidate, propagate on that board ends with one of
\* the two domains empty and the board impossible, and next_states returns no
\* state for that branch.
C18_SameCandidateTwiceInRowIsPruned ==
    (op = "next_states" /\ Unfixed(b) # {}) =>
        \A i \in 1 .. Len(ChosenDomain) :
            LET added == Added(i)
                after == propagate(added)
            IN  \A row \in Idx :
                    \A cc \in SameCandidatePairs(added, row) :
                        /\ ~after.exc
                        /\ ~solution_is_possible(after)
                        /\ \/ width(after.board[row][cc[1]]) = 0
                           \/ width(after.board[row][cc[2]]) = 0
                        /\ \A j \in 1 .. Len(ret.states) :
                               BranchValue(ret.states[j]) # ChosenDomain[i]

\* next_states was called on a board possible so far, and dropped a branch
\* that left one row with the same single candidate in two unfixed cells.
C18_Witness ==
    /\ op = "next_states"
    /\ Unfixed(b) # {}
    /\ solution_is_possible(b)
    /\ \E i \in 1 .. Len(ChosenDomain) :
           LET added == Added(i)
           IN  \E row \in Idx : SameCandidatePairs(added, row) # {}

\* C19: when propagate returns and the board is possible, no unfixed cell has
\* exactly one candidate; so every unfixed cell of a state returned by
\* next_states (if it has any) has at least two candidates.
C19_PropagateReachesFixpoint ==
    /\ (op = "propagate" /\ solution_is_possible(b)) => Forced(b, 0) = {}
    /\ (op = "next_states" /\ ~ret.exc) =>
           \A i \in 1 .. Len(ret.states) :
               \A rc \in Unfixed(ret.states[i]) :
                   width(ret.states[i].board[rc[1]][rc[2]]) >= 2

\* propagate fixed several cells, one making the next one forced, and
\* returned a possible board that still has unfixed cells.
C19_Witness ==
    /\ op = "propagate"
    /\ solution_is_possible(b)
    /\ Len(ret) >= 2
    /\ Unfixed(b) # {}

\* next_states returned an incomplete state in which propagate had fixed
\* cells beyond the chosen one.
C19_WitnessSuccessor ==
    /\ op = "next_states"
    /\ ~ret.exc
    /\ \E i \in 1 .. Len(ret.states) :
           /\ Unfixed(ret.states[i]) # {}
           /\ ret.states[i].num_placed > b.num_placed + 1

\* C20: dfs from a board built from the empty board by add_number calls on
\* unfixed cells with values of their domains meets no failure: no assertion
\* of fix or eliminate fails, every board it calls next_states on has an
\* unfixed cell, and every board it takes for a goal has none.
C20_DfsMeetsNoFailure ==
    (op = "dfs" /\ contract) =>
        LET t == DfsTrace(Cleared, 0)
        IN  /\ ~ret.exc
            /\ ~t.exc
            /\ \A i \in 1 .. Len(t.expanded) :
                   /\ ~is_goal(t.expanded[i])
                   /\ Unfixed(t.expanded[i]) # {}
                   /\ get_most_constrained_cell(t.expanded[i]) # <<>>
            /\ \A i \in 1 .. Len(ret.result) :
                   /\ is_goal(ret.result[i])
                   /\ Unfixed(ret.result[i]) = {}

\* dfs from such a board went at least two calls down, expanded several
\* boards and returned a goal.
C20_Witness ==
    /\ op = "dfs"
    /\ contract
    /\ ~ret.exc
    /\ Len(ret.result) >= 1
    /\ LET t == DfsTrace(Cleared, 0)
       IN  t.depth >= 2 /\ Len(t.expanded) >= 3

\* The list left when the first n is removed from a list without repetition.
Without(domain, n) == SelectSeq(domain, LAMBDA x : x # n)

\* C21: a successful add_number(r, c, v) adds one to num_placed and, apart
\* from the cell (r, c), changes the board only by removing v from the
\* unfixed cells of row r, of column c and of the subgrid of (r, c): the
\* cells outside them and the fixed cells stay as they were, and no cell
\* loses another value.
C21_AddNumberChangesOnlyPeers ==
    [][(op' = "add_number" /\ ~b'.exc) =>
          /\ b'.num_placed = b.num_placed + 1
          /\ \A rc \in Cells \ {<<ret'[1], ret'[2]>>} :
                LET old == b.board[rc[1]][rc[2]]
                    new == b'.board[rc[1]][rc[2]]
                IN  /\ new.fixed = old.fixed
                    /\ IF rc \in Peers(ret'[1], ret'[2]) /\ ~is_fixed(old)
                       THEN new.domain = Without(old.domain, ret'[3])
                       ELSE new.domain = old.domain]_vars

\* The call has succeeded on a board that, after it, has a fixed cell and an
\* unfixed cell with candidates left among the peers of the cell, and an
\* unfixed cell outside them that still has the value.
C21_Witness ==
    /\ op = "add_number"
    /\ adds > 0
    /\ ~b.exc
    /\ \E pc \in Peers(ret[1], ret[2]) : is_fixed(b.board[pc[1]][pc[2]])
    /\ \E pc \in Peers(ret[1], ret[2]) :
           /\ ~is_fixed(b.board[pc[1]][pc[2]])
           /\ width(b.board[pc[1]][pc[2]]) >= 1
    /\ \E rc \in Cells \ (Peers(ret[1], ret[2]) \cup {<<ret[1], ret[2]>>}) :
           /\ ~is_fixed(b.board[rc[1]][rc[2]])
           /\ Contains(b.board[rc[1]][rc[2]].domain, ret[3])

====
